---- MODULE Spec2Model ----
(***************************************************************************)
(* Model of torch/csrc/jit/fuser/common/ir.h: the expression IR's node     *)
(* factories (IntImm, FloatImm, Variable, Cast, Add/Sub/Mul/Div, Block,    *)
(* For, EmptyExpr) and the accessors of the nodes they build.              *)
(*                                                                         *)
(* A node instance is one `new` of ir.h.  The heap is the sequence of the  *)
(* node instances in the order their construction completed and a handle   *)
(* (Expr) is the position of the node it refers to, so two handles are the *)
(* same node exactly when they are equal.  The caller keeps every handle   *)
(* it is given, so no node is released within a behaviour.  Handle 0 is no *)
(* node.                                                                   *)
(***************************************************************************)
EXTENDS Integers, Sequences, FiniteSets, TLC

\* ------------------------------------------------------------- bounds

\* Largest number of factory calls in a behaviour.
MaxCalls == 3
\* Largest vector width of a Dtype.
MaxLanes == 2
\* Longest sequence handed to Block::make.
MaxBlockLen == 2

\* Values handed to IntImm::make and FloatImm::make, names to Variable::make.
IntVals == {3, 4}
FloatVals == {2}
NameHints == {"x"}

\* ------------------------------------------------------------- Dtype

\* Dtype, its constants and BinaryOpDtype are declared in expr.h; they are
\* modelled here as the design document describes them.

ScalarKinds == {"Null", "Int32", "Float32"}

Dtype(kind, lanes) == [kind |-> kind, lanes |-> lanes]

Dtypes == {Dtype(k, l) : k \in ScalarKinds, l \in 1..MaxLanes}

kNull == Dtype("Null", 1)
kInt32 == Dtype("Int32", 1)
kFloat32 == Dtype("Float32", 1)

\* ToDtype<T>() for the caller-level scalar types of cast<T>.
ScalarTypes == {"int", "float"}
ToDtype(T) == IF T = "int" THEN kInt32 ELSE kFloat32

\* The kind-rank table of the promotion: the higher rank wins.
KindRank == [Int32 |-> 1, Float32 |-> 2]

\* The result type of a binary operator, or the condition it fails with.
BinaryOpDtype(a, b) ==
  IF a = b THEN [status |-> "ok", dtype |-> a]
  ELSE IF a.lanes # b.lanes THEN [status |-> "lane_mismatch", dtype |-> kNull]
  ELSE IF a.kind \notin DOMAIN KindRank \/ b.kind \notin DOMAIN KindRank
         THEN [status |-> "unsupported_kind", dtype |-> kNull]
  ELSE IF KindRank[a.kind] >= KindRank[b.kind]
         THEN [status |-> "ok", dtype |-> a]
         ELSE [status |-> "ok", dtype |-> b]

\* ------------------------------------------------------------- nodes

IRNodeType == {"kAdd", "kSub", "kMul", "kDiv"}

BinaryTag == [kAdd |-> "Add", kSub |-> "Sub", kMul |-> "Mul", kDiv |-> "Div"]

BinaryTags == {BinaryTag[t] : t \in IRNodeType}

\* One node instance: its class, the dtype of ExprNodeBase, its child
\* handles in member order, and the scalar members of the leaf classes.
Node(tag, dtype, kids, value, name_hint, expr_type) ==
  [tag |-> tag, dtype |-> dtype, kids |-> kids, value |-> value,
   name_hint |-> name_hint, expr_type |-> expr_type]

\* Expr(new T(...)): the new instance is the youngest of the heap.
NewExpr(h, node) == [heap |-> Append(h, node), res |-> Len(h) + 1]

\* heap: the node instances; last: the latest call; ncalls: the factory calls
\* made so far.
VARIABLES heap, last, ncalls

vars == <<heap, last, ncalls>>

Handles == 1..Len(heap)

\* The record of the latest call: the operation, its handle arguments, its
\* scalar arguments, how it ended, the handle it returned and the number of
\* node instances before it.
Call(op, args, dtype, index, status, res, before) ==
  [op |-> op, args |-> args, dtype |-> dtype, index |-> index,
   status |-> status, res |-> res, before |-> before]

NoCall == Call("none", <<>>, kNull, 0, "ok", 0, 0)

Init ==
  /\ heap = <<>>
  /\ last = NoCall
  /\ ncalls = 0

\* A call is made while the call budget lasts and the latest call returned: a
\* failed construction or a read outside a vector ends the behaviour.  (A
\* failed call leaves the heap as it was, so a caller that went on after it
\* would reach no heap the behaviours without that call do not reach.)
CanCall ==
  /\ ncalls < MaxCalls
  /\ last.status = "ok"

\* ------------------------------------------------------------- leaves

IntImmNode(value) == Node("IntImm", kInt32, <<>>, value, "", "")

IntImmMake ==
  /\ CanCall
  /\ \E v \in IntVals :
       LET r == NewExpr(heap, IntImmNode(v)) IN
       /\ heap' = r.heap
       /\ last' = Call("IntImm::make", <<>>, kNull, v, "ok", r.res, Len(heap))
       /\ ncalls' = ncalls + 1

FloatImmNode(value) == Node("FloatImm", kFloat32, <<>>, value, "", "")

FloatImmMake ==
  /\ CanCall
  /\ \E v \in FloatVals :
       LET r == NewExpr(heap, FloatImmNode(v)) IN
       /\ heap' = r.heap
       /\ last' = Call("FloatImm::make", <<>>, kNull, v, "ok", r.res, Len(heap))
       /\ ncalls' = ncalls + 1

\* Variable::make(name_hint, dtype).
VariableNode(name_hint, dtype) == Node("Variable", dtype, <<>>, 0, name_hint, "")

\* The factory as it would be if variables were interned by name and dtype.
VariableMake_Interned(h, name_hint, dtype) ==
  IF \E i \in 1..Len(h) : h[i] = VariableNode(name_hint, dtype)
    THEN [heap |-> h,
          res |-> CHOOSE i \in 1..Len(h) : h[i] = VariableNode(name_hint, dtype)]
    ELSE NewExpr(h, VariableNode(name_hint, dtype))

VariableMake(h, name_hint, dtype) == NewExpr(h, VariableNode(name_hint, dtype))

\* Variable::make(dtype): the empty name hint.
VariableMakeAnon(h, dtype) == NewExpr(h, VariableNode("", dtype))

VariableMakeNamed ==
  /\ CanCall
  /\ \E name \in NameHints, d \in Dtypes :
       LET r == VariableMake(heap, name, d) IN
       /\ heap' = r.heap
       /\ last' = Call("Variable::make", <<>>, d, 0, "ok", r.res, Len(heap))
       /\ ncalls' = ncalls + 1

VariableMakeDtype ==
  /\ CanCall
  /\ \E d \in Dtypes :
       LET r == VariableMakeAnon(heap, d) IN
       /\ heap' = r.heap
       /\ last' = Call("Variable::make(dtype)", <<>>, d, 0, "ok", r.res, Len(heap))
       /\ ncalls' = ncalls + 1

EmptyExprNode == Node("EmptyExpr", kNull, <<>>, 0, "", "")

EmptyExprMake ==
  /\ CanCall
  /\ LET r == NewExpr(heap, EmptyExprNode) IN
     /\ heap' = r.heap
     /\ last' = Call("EmptyExpr::make", <<>>, kNull, 0, "ok", r.res, Len(heap))
     /\ ncalls' = ncalls + 1

\* ------------------------------------------------------------- Cast

CastNode(dtype, src_value) == Node("Cast", dtype, <<src_value>>, 0, "", "")

\* The factory as it would be if a cast to the source's own dtype were elided.
CastMake_ElidesIdentity(h, dtype, src_value) ==
  IF h[src_value].dtype = dtype
    THEN [heap |-> h, res |-> src_value]
    ELSE NewExpr(h, CastNode(dtype, src_value))

\* Cast::make(dtype, src_value).
CastMake(h, dtype, src_value) == NewExpr(h, CastNode(dtype, src_value))

\* Cast::src_value().
src_value(node) == node.kids[1]

CastMakeCall ==
  /\ CanCall
  /\ \E src \in Handles, d \in Dtypes :
       LET r == CastMake(heap, d, src) IN
       /\ heap' = r.heap
       /\ last' = Call("Cast::make", <<src>>, d, 0, "ok", r.res, Len(heap))
       /\ ncalls' = ncalls + 1

\* cast<T>(src_value): the scalar type T at the lane count of the source.
CastT(h, T, src) == CastMake(h, Dtype(ToDtype(T).kind, h[src].dtype.lanes), src)

CastTCall ==
  /\ CanCall
  /\ \E src \in Handles, T \in ScalarTypes :
       LET r == CastT(heap, T, src) IN
       /\ heap' = r.heap
       /\ last' = Call("cast<T>", <<src>>, ToDtype(T), 0, "ok", r.res, Len(heap))
       /\ ncalls' = ncalls + 1

\* ------------------------------------------------------------- binary operators

\* CastIfNeeded as it would be without the cast.
CastIfNeeded_NeverCasts(h, expr, dst_dtype) == [heap |-> h, res |-> expr]

\* CastIfNeeded as it would be without the dtype comparison.
CastIfNeeded_AlwaysCasts(h, expr, dst_dtype) == CastMake(h, dst_dtype, expr)

\* CastIfNeeded as it would be if it retyped the operand instead of wrapping it.
CastIfNeeded_InPlace(h, expr, dst_dtype) ==
  [heap |-> [h EXCEPT ![expr].dtype = dst_dtype], res |-> expr]

\* BinaryOpNode::CastIfNeeded(expr, dst_dtype).
CastIfNeeded(h, expr, dst_dtype) ==
  IF h[expr].dtype = dst_dtype
    THEN [heap |-> h, res |-> expr]
    ELSE CastMake(h, dst_dtype, expr)

BinaryOpNode(expr_type, dtype, lhs, rhs) ==
  Node(BinaryTag[expr_type], dtype, <<lhs, rhs>>, 0, "", expr_type)

\* The constructor as it would be if a failing BinaryOpDtype were ignored and
\* the operands coerced to the dtype of the left one.
BinaryOpMake_IgnoresFailure(h, lhs_v, rhs_v, expr_type) ==
  LET p == BinaryOpDtype(h[lhs_v].dtype, h[rhs_v].dtype)
      d == IF p.status = "ok" THEN p.dtype ELSE h[lhs_v].dtype
      l == CastIfNeeded(h, lhs_v, d)
      r == CastIfNeeded(l.heap, rhs_v, d)
      n == NewExpr(r.heap, BinaryOpNode(expr_type, d, l.res, r.res))
  IN  [heap |-> n.heap, res |-> n.res, status |-> "ok"]

\* The constructor as it would be if the node took the dtype of its left
\* operand.
BinaryOpMake_LhsDtype(h, lhs_v, rhs_v, expr_type) ==
  LET p == BinaryOpDtype(h[lhs_v].dtype, h[rhs_v].dtype) IN
  IF p.status # "ok"
    THEN [heap |-> h, res |-> 0, status |-> p.status]
    ELSE LET d == h[lhs_v].dtype
             l == CastIfNeeded(h, lhs_v, d)
             r == CastIfNeeded(l.heap, rhs_v, d)
             n == NewExpr(r.heap, BinaryOpNode(expr_type, d, l.res, r.res))
         IN  [heap |-> n.heap, res |-> n.res, status |-> "ok"]

\* BinaryOpNode::make(lhs, rhs) and the constructor it runs: the base class
\* (the result dtype) first, then lhs_, then rhs_, in member order.  A
\* failing BinaryOpDtype ends the construction before any member is built.
BinaryOpMake(h, lhs_v, rhs_v, expr_type) ==
  LET p == BinaryOpDtype(h[lhs_v].dtype, h[rhs_v].dtype) IN
  IF p.status # "ok"
    THEN [heap |-> h, res |-> 0, status |-> p.status]
    ELSE LET l == CastIfNeeded(h, lhs_v, p.dtype)
             r == CastIfNeeded(l.heap, rhs_v, p.dtype)
             n == NewExpr(r.heap, BinaryOpNode(expr_type, p.dtype, l.res, r.res))
         IN  [heap |-> n.heap, res |-> n.res, status |-> "ok"]

\* BinaryOpNode accessors.
lhs(node) == node.kids[1]
rhs(node) == node.kids[2]

BinaryCall(expr_type) ==
  \E l \in Handles, r \in Handles :
    LET m == BinaryOpMake(heap, l, r, expr_type) IN
    /\ CanCall
    /\ heap' = m.heap
    /\ last' = Call(BinaryTag[expr_type], <<l, r>>, kNull, 0, m.status, m.res, Len(heap))
    /\ ncalls' = ncalls + 1

AddMake == BinaryCall("kAdd")
SubMake == BinaryCall("kSub")
MulMake == BinaryCall("kMul")
DivMake == BinaryCall("kDiv")

\* ------------------------------------------------------------- Block, For

RECURSIVE SeqsUpTo(_, _)
\* The sequences over S of length at most n.
SeqsUpTo(S, n) ==
  IF n = 0 THEN {<<>>}
  ELSE LET shorter == SeqsUpTo(S, n - 1) IN
       shorter \cup {Append(s, x) : s \in shorter, x \in S}

BlockNode(exprs) == Node("Block", kNull, exprs, 0, "", "")

RECURSIVE Dedup(_)
\* A sequence without the later occurrences of its repeated elements.
Dedup(q) ==
  IF q = <<>> THEN <<>>
  ELSE LET front == Dedup(SubSeq(q, 1, Len(q) - 1))
           x == q[Len(q)]
       IN  IF \E k \in 1..Len(front) : front[k] = x THEN front ELSE Append(front, x)

\* The factory as it would be if the block kept each handle once.
BlockMake_Dedup(h, exprs) == NewExpr(h, BlockNode(Dedup(exprs)))

\* Block::make(exprs).
BlockMake(h, exprs) == NewExpr(h, BlockNode(exprs))

\* Block::nexprs().
nexprs(node) == Len(node.kids)

\* Block::expr(index): exprs_[index] of a std::vector, which checks nothing.
\* An index outside the vector is undefined behaviour: the call reads
\* whatever lies beside the elements as a handle (any node or none), or the
\* process stops.
BlockExpr(h, block, index) ==
  IF 0 <= index /\ index < Len(h[block].kids)
    THEN {[status |-> "ok", res |-> h[block].kids[index + 1]]}
    ELSE {[status |-> "garbage", res |-> g] : g \in 0..Len(h)}
         \cup {[status |-> "crash", res |-> 0]}

BlockMakeCall ==
  /\ CanCall
  /\ \E exprs \in SeqsUpTo(Handles, MaxBlockLen) :
       LET r == BlockMake(heap, exprs) IN
       /\ heap' = r.heap
       /\ last' = Call("Block::make", exprs, kNull, 0, "ok", r.res, Len(heap))
       /\ ncalls' = ncalls + 1

BlockExprCall ==
  \E b \in Handles, i \in -1..(MaxBlockLen + 1) :
    /\ CanCall
    /\ heap[b].tag = "Block"
    /\ \E out \in BlockExpr(heap, b, i) :
         last' = Call("Block::expr", <<b>>, kNull, i, out.status, out.res, Len(heap))
    /\ UNCHANGED <<heap, ncalls>>

ForNode(var, start, stop, body) ==
  Node("For", kNull, <<var, start, stop, body>>, 0, "", "")

\* The factory as it would be with the two bounds stored in each other's place.
ForMake_SwapsBounds(h, var, start, stop, body) ==
  NewExpr(h, ForNode(var, stop, start, body))

\* For::make(var, start, stop, body).
ForMake(h, var, start, stop, body) == NewExpr(h, ForNode(var, start, stop, body))

\* For accessors.
var(node) == node.kids[1]
start(node) == node.kids[2]
stop(node) == node.kids[3]
body(node) == node.kids[4]

ForMakeCall ==
  /\ CanCall
  /\ \E v \in Handles, a \in Handles, b \in Handles, c \in Handles :
       LET r == ForMake(heap, v, a, b, c) IN
       /\ heap' = r.heap
       /\ last' = Call("For::make", <<v, a, b, c>>, kNull, 0, "ok", r.res, Len(heap))
       /\ ncalls' = ncalls + 1

\* ------------------------------------------------------------- specifications

\* Every factory of ir.h.
Next ==
  \/ IntImmMake
  \/ FloatImmMake
  \/ VariableMakeNamed
  \/ VariableMakeDtype
  \/ EmptyExprMake
  \/ CastMakeCall
  \/ CastTCall
  \/ AddMake
  \/ SubMake
  \/ MulMake
  \/ DivMake
  \/ BlockMakeCall
  \/ ForMakeCall

Spec == Init /\ [][Next]_vars

\* The typed expressions: leaves, casts and the binary operators.
NextArith ==
  \/ IntImmMake
  \/ FloatImmMake
  \/ VariableMakeNamed
  \/ VariableMakeDtype
  \/ CastMakeCall
  \/ CastTCall
  \/ AddMake
  \/ SubMake
  \/ MulMake
  \/ DivMake

SpecArith == Init /\ [][NextArith]_vars

\* Blocks over leaves and other blocks, and the reads of their elements.
NextBlock ==
  \/ IntImmMake
  \/ FloatImmMake
  \/ EmptyExprMake
  \/ BlockMakeCall
  \/ BlockExprCall

SpecBlock == Init /\ [][NextBlock]_vars

\* Loops over leaves, blocks and other loops.
NextFor ==
  \/ IntImmMake
  \/ VariableMakeDtype
  \/ BlockMakeCall
  \/ ForMakeCall

SpecFor == Init /\ [][NextFor]_vars

\* ------------------------------------------------------------- properties

IsBinaryCall == last.op \in BinaryTags

\* The heap as it was when the latest call was made.
Before == SubSeq(heap, 1, last.before)

\* C1: in every reachable state, every Add, Sub, Mul or Div node of the heap
\* has a left and a right operand whose dtype is the node's own dtype.
C1_OperandsShareNodeDtype ==
  \A i \in Handles :
    heap[i].tag \in BinaryTags =>
      /\ heap[lhs(heap[i])].dtype = heap[i].dtype
      /\ heap[rhs(heap[i])].dtype = heap[i].dtype

\* A binary node built from a Float32 left and an Int32 right operand is in
\* the heap, its right operand behind a cast.
C1_Witness ==
  \E i \in Handles :
    /\ heap[i].tag \in BinaryTags
    /\ heap[i].dtype.kind = "Float32"
    /\ heap[lhs(heap[i])].tag = "Variable"
    /\ heap[rhs(heap[i])].tag = "Cast"
    /\ heap[src_value(heap[rhs(heap[i])])].dtype.kind = "Int32"

\* What a binary construction stores for the operand it was handed: the
\* handle itself when its dtype is the result type, otherwise one Cast node
\* built by this call, of the result type, over the handle.
StoredAsC2(stored, operand, node) ==
  IF Before[operand].dtype = node.dtype
    THEN stored = operand
    ELSE /\ stored > last.before
         /\ heap[stored].tag = "Cast"
         /\ heap[stored].dtype = node.dtype
         /\ src_value(heap[stored]) = operand

\* The number of the operands of the latest call whose dtype is not d.
Differing(d) == Cardinality({k \in {1, 2} : Before[last.args[k]].dtype # d})

\* C2: a successful binary construction stores an operand of the result type
\* as the handle passed in, and any other operand as exactly one new Cast
\* node of the result type over the original operand; it builds no other
\* node beside the binary node itself.
C2_CastOnlyWhereNeeded ==
  (IsBinaryCall /\ last.status = "ok") =>
    LET node == heap[last.res] IN
    /\ StoredAsC2(lhs(node), last.args[1], node)
    /\ StoredAsC2(rhs(node), last.args[2], node)
    /\ Len(heap) = last.before + 1 + Differing(node.dtype)
    /\ (Differing(node.dtype) = 2 => lhs(node) # rhs(node))

\* Add::make of an int immediate and a float immediate has returned.
C2_Witness ==
  /\ last.op = "Add"
  /\ last.status = "ok"
  /\ heap[last.args[1]].tag = "IntImm"
  /\ heap[last.args[2]].tag = "FloatImm"
  /\ heap[lhs(heap[last.res])].tag = "Cast"
  /\ rhs(heap[last.res]) = last.args[2]

\* C3: Cast::make returns a node that did not exist before the call, of class
\* Cast, of the target dtype, over the handle passed in, whatever the dtype
\* of the source.
C3_CastAlwaysNewNode ==
  last.op = "Cast::make" =>
    /\ last.status = "ok"
    /\ last.res = last.before + 1
    /\ Len(heap) = last.before + 1
    /\ last.res # last.args[1]
    /\ heap[last.res].tag = "Cast"
    /\ heap[last.res].dtype = last.dtype
    /\ src_value(heap[last.res]) = last.args[1]

\* Cast::make has been called with the dtype its source already has.
C3_Witness ==
  /\ last.op = "Cast::make"
  /\ heap[last.args[1]].dtype = last.dtype

\* C4: Block::expr with an index outside [0, nexprs()) ends with an
\* out-of-range condition and returns no handle.
C4_OutOfRangeReported ==
  (/\ last.op = "Block::expr"
   /\ ~(0 <= last.index /\ last.index < nexprs(heap[last.args[1]])))
    => (last.status = "out_of_range" /\ last.res = 0)

\* C5: a binary construction over operands of unequal lane counts fails with
\* the lane-mismatch condition, returns no node and builds none.
C5_LaneMismatchFails ==
  (/\ IsBinaryCall
   /\ heap[last.args[1]].dtype.lanes # heap[last.args[2]].dtype.lanes)
    => /\ last.status = "lane_mismatch"
       /\ last.res = 0
       /\ Len(heap) = last.before

\* A binary factory has been called on operands of unequal lane counts.
C5_Witness ==
  /\ IsBinaryCall
  /\ heap[last.args[1]].dtype.lanes # heap[last.args[2]].dtype.lanes
  /\ heap[last.args[1]].dtype.kind # "Null"
  /\ heap[last.args[2]].dtype.kind # "Null"

\* C6: Block::make returns a Block node of dtype kNull whose nexprs() is the
\* length of the sequence passed in and whose expr(i) is the i-th handle of
\* that sequence, for every i in [0, nexprs()).
C6_BlockStoresSequence ==
  last.op = "Block::make" =>
    LET node == heap[last.res] IN
    /\ last.status = "ok"
    /\ node.tag = "Block"
    /\ node.dtype = kNull
    /\ nexprs(node) = Len(last.args)
    /\ \A i \in 0..(Len(last.args) - 1) :
         BlockExpr(heap, last.res, i) = {[status |-> "ok", res |-> last.args[i + 1]]}

\* Block::make has been called on a sequence that repeats a handle.
C6_Witness ==
  /\ last.op = "Block::make"
  /\ Len(last.args) = 2
  /\ last.args[1] = last.args[2]

\* C7: for operands of equal lane counts, the construction with the operands
\* exchanged ends the same way and, when it succeeds, gives a node of the
\* same dtype; operands of one dtype give a node of that dtype; Int32 with
\* Float32 gives Float32.
C7_ResultDtypeSymmetric ==
  (/\ IsBinaryCall
   /\ heap[last.args[1]].dtype.lanes = heap[last.args[2]].dtype.lanes)
    => LET a == Before[last.args[1]].dtype
           b == Before[last.args[2]].dtype
           sw == BinaryOpMake(Before, last.args[2], last.args[1], "kAdd")
       IN  /\ sw.status = last.status
           /\ last.status = "ok" => sw.heap[sw.res].dtype = heap[last.res].dtype
           /\ a = b => (last.status = "ok" /\ heap[last.res].dtype = a)
           /\ {a.kind, b.kind} = {"Int32", "Float32"} =>
                (last.status = "ok" /\ heap[last.res].dtype = Dtype("Float32", a.lanes))

\* A binary node has been built from an Int32 left and a Float32 right operand.
C7_Witness ==
  /\ IsBinaryCall
  /\ last.status = "ok"
  /\ heap[last.args[1]].dtype.kind = "Int32"
  /\ heap[last.args[2]].dtype.kind = "Float32"

\* C8: For::make succeeds on any four handles and returns one new For node of
\* dtype kNull whose var(), start(), stop() and body() are the four handles
\* passed in, in that order.
C8_ForStoresHandles ==
  last.op = "For::make" =>
    LET node == heap[last.res] IN
    /\ last.status = "ok"
    /\ Len(heap) = last.before + 1
    /\ node.tag = "For"
    /\ node.dtype = kNull
    /\ var(node) = last.args[1]
    /\ start(node) = last.args[2]
    /\ stop(node) = last.args[3]
    /\ body(node) = last.args[4]

\* For::make has been called with a var that is no Variable and with two
\* different bounds.
C8_Witness ==
  /\ last.op = "For::make"
  /\ heap[last.args[1]].tag # "Variable"
  /\ last.args[2] # last.args[3]

\* C9: Variable::make, in either overload, returns a node that is none of the
\* nodes that existed before the call.
C9_VariableFresh ==
  last.op \in {"Variable::make", "Variable::make(dtype)"} =>
    /\ last.res \notin 1..last.before
    /\ last.res \in Handles
    /\ heap[last.res].tag = "Variable"
    /\ heap[last.res].dtype = last.dtype

\* Variable::make has been called with a name hint and a dtype that an
\* earlier variable already has.
C9_Witness ==
  /\ last.op = "Variable::make"
  /\ \E i \in 1..last.before : heap[i] = heap[last.res]

\* Every child handle of every node of h refers to an older node of h.
ChildrenOlder(h) ==
  \A i \in 1..Len(h) : \A k \in 1..Len(h[i].kids) : h[i].kids[k] \in 1..(i - 1)

\* C10: every step leaves every existing node as it was, and after it every
\* child handle refers to a node older than the node that stores it.
C10_BottomUpAndImmutable ==
  [][/\ ChildrenOlder(heap')
     /\ Len(heap') >= Len(heap)
     /\ \A i \in 1..Len(heap) : heap'[i] = heap[i]]_vars

\* A binary construction has inserted a cast beside nodes that existed.
C10_Witness ==
  /\ IsBinaryCall
  /\ last.status = "ok"
  /\ Len(heap) = last.before + 2

====
